---- MODULE Spec2Model ----
(***************************************************************************)
(* Z-Wave dimmer / colour light adapter                                    *)
(* (homeassistant/components/light/zwave.py).                              *)
(*                                                                         *)
(* Numbers.  Python computes brightness and colour temperature in floats.  *)
(* The model keeps them exact as scaled integers:                          *)
(*   brightness  b  is held as 99*b   (b = data/99*255  ->  255*data),     *)
(*   temperature t  is held as 255*t  (t = MIN+(MAX-MIN)*w/255             *)
(*                                       ->  255*MIN + (MAX-MIN)*w).       *)
(* Where the IEEE double result of an expression differs from the exact    *)
(* one after int() truncation, the affected inputs are listed in a table.  *)
(*                                                                         *)
(* Strings (colour payloads) are sequences of one-character strings.       *)
(* Time is counted in ticks, TicksPerSecond to the second.  Steps of the   *)
(* program take no time; a Timer's wait ends exactly at its deadline.      *)
(***************************************************************************)
EXTENDS Integers, Sequences, FiniteSets, TLC

\* ------------------------------------------------------------------ bounds
TicksPerSecond == 2
MaxTime == 7
MaxTimers == 3
ServiceTimers == 1
MaxEvents == 3
MaxWebhooks == 3
MaxCommands == 3
MaxHosts == 2
MaxPasses == 3
MaxEntities == 3

\* --------------------------------------------------------------- constants
COLOR_CHANNEL_WARM_WHITE == 1
COLOR_CHANNEL_COLD_WHITE == 2
COLOR_CHANNEL_RED == 4
COLOR_CHANNEL_GREEN == 8
COLOR_CHANNEL_BLUE == 16
HASS_COLOR_MIN == 154
HASS_COLOR_MAX == 500
TIMER_INTERVAL == 2
DIMMER_MAX == 99
BYTE_MAX == 255

None == 0 - 1
STATE_ON == "on"
STATE_OFF == "off"
VALUE_ID == "value"
OTHER_ID == "other"

Delay == TIMER_INTERVAL * TicksPerSecond
CtSpan == HASS_COLOR_MAX - HASS_COLOR_MIN

\* Temperatures, times 255.
TEMP_MID_HASS == (BYTE_MAX * CtSpan) \div 2 + BYTE_MAX * HASS_COLOR_MIN
TEMP_WARM_HASS == ((BYTE_MAX * CtSpan) \div 3) * 2 + BYTE_MAX * HASS_COLOR_MIN
TEMP_COLD_HASS == (BYTE_MAX * CtSpan) \div 3 + BYTE_MAX * HASS_COLOR_MIN

\* ------------------------------------------------------------ bit and text
HasBit(mask, bit) == (mask \div bit) % 2 = 1

LowerHex ==
  <<"0","1","2","3","4","5","6","7","8","9","a","b","c","d","e","f">>
UpperHex ==
  <<"0","1","2","3","4","5","6","7","8","9","A","B","C","D","E","F">>

IsHex(c) == \E i \in 1..16 : LowerHex[i] = c \/ UpperHex[i] = c
HexVal(c) == (CHOOSE i \in 1..16 : LowerHex[i] = c \/ UpperHex[i] = c) - 1

\* Python slice s[a:b] (0-based, end exclusive, clipped to the string).
Slice(s, a, b) ==
  LET hi == IF b < Len(s) THEN b ELSE Len(s)
  IN IF a >= hi THEN <<>> ELSE SubSeq(s, a + 1, hi)

RECURSIVE HexFold(_, _)
HexFold(s, acc) ==
  IF s = <<>> THEN acc ELSE HexFold(Tail(s), acc * 16 + HexVal(Head(s)))

\* int(s, 16): None stands for ValueError.
ParseHex(s) ==
  IF s = <<>> \/ \E i \in 1..Len(s) : ~IsHex(s[i]) THEN None ELSE HexFold(s, 0)

\* format(v, '02x')
Format02x(v) ==
  IF v < 16 THEN <<"0", LowerHex[v + 1]>>
  ELSE <<LowerHex[(v \div 16) + 1], LowerHex[(v % 16) + 1]>>

\* format(n) of a non-negative int: its decimal digits.
RECURSIVE FormatDec(_)
FormatDec(n) ==
  IF n < 10 THEN <<LowerHex[n + 1]>>
  ELSE FormatDec(n \div 10) \o <<LowerHex[(n % 10) + 1]>>

\* ------------------------------------------------------------------ colour
NoRGB == [src |-> "none", v |-> <<>>, of |-> 0]
RGB(r, g, b) == [src |-> "bytes", v |-> <<r, g, b>>, of |-> 0]

\* The RGB equivalent of a temperature (external colour maths).
ct_to_rgb(temp) == [src |-> "ct", v |-> <<>>, of |-> temp]

\* ------------------------------------------------------------------- state
VARIABLES
  value_data,            \* self._value.data: the device's level, 0..99
  value_color,           \* self._value_color.data: the device's colour payload
  value_color_channels,  \* self._value_color_channels.data: capability bitmask
  constructed,           \* __init__ has run update_properties
  brightness,            \* self._brightness, times 99
  state,                 \* self._state
  color_channels,        \* self._color_channels
  rgb,                   \* self._rgb
  ct,                    \* self._ct, times 255
  refreshing,            \* self._refreshing
  timers,                \* every Timer created so far; self._timer is the last
  hpc,                   \* where the notification thread is in _value_changed
  now,                   \* the clock, in ticks
  inflight,              \* refresh requests issued since a notification was last consumed
  env,                   \* the transport: refresh results delivered, external changes still to come
  last,                  \* the last operation: its inputs, what it sent, the cache before it
  deconz,                \* the deCONZ gateway: its lights and the cover entities
  graphite,              \* the GraphiteFeeder: its queue and its worker thread
  locative,              \* the device tracker states the Locative webhook sees
  shelly,                \* a Shelly relay block and its BlockRelaySwitch
  sonos,                 \* the Sonos discovery thread, heartbeat and executor job
  ps4                    \* a PS4 config entry and its entity registry

zwavevars == <<value_data, value_color, value_color_channels, constructed,
               brightness, state, color_channels, rgb, ct, refreshing, timers,
               hpc, now, inflight, env, last>>

\* The integrations other than the Z-Wave light.
others == <<deconz, graphite, locative, shelly, sonos, ps4>>

vars == <<zwavevars, others>>

\* An integration that is not set up has no state.
NotSetUp == <<>>

OthersNotSetUp ==
  /\ deconz = NotSetUp
  /\ graphite = NotSetUp
  /\ locative = NotSetUp
  /\ shelly = NotSetUp
  /\ sonos = NotSetUp
  /\ ps4 = NotSetUp

cache == <<brightness, state, rgb, ct>>
devvars == <<value_data, value_color, value_color_channels>>
lightvars == <<constructed, brightness, state, color_channels, rgb, ct>>
threadvars == <<refreshing, timers, hpc, now, inflight>>

NoKw == [brightness |-> None, color_temp |-> None, rgb_color |-> NoRGB]

Op(name) ==
  [op |-> name, kw |-> NoKw, dim_ok |-> TRUE, rgbw_ok |-> TRUE,
   level |-> None, rgbw |-> <<>>, pre |-> cache, error |-> FALSE,
   notified |-> FALSE]

\* ------------------------------------------------------------------ dimmer
\* brightness_state with brightness 0 for a device that is off.
brightness_state_dark_off(data) ==
  IF data > 0 THEN <<data * BYTE_MAX, STATE_ON>>
  ELSE <<0, STATE_OFF>>

\* brightness_state(value): (brightness, state); brightness times 99.
brightness_state(data) ==
  IF data > 0 THEN <<data * BYTE_MAX, STATE_ON>>
  ELSE <<BYTE_MAX * DIMMER_MAX, STATE_OFF>>

\* Device levels d whose brightness d/99*255, taken back through
\* int((b/255)*99) in IEEE doubles, comes out as d-1.
LevelFloatLoss == {27, 54, 59}

\* int((self._brightness / 255) * 99), self._brightness given times 99.
dimmer_level(b99) ==
  LET exact == b99 \div BYTE_MAX
  IN IF b99 % BYTE_MAX = 0 /\ exact \in LevelFloatLoss THEN exact - 1 ELSE exact

\* ZwaveDimmer.update_properties
Dimmer_update_properties ==
  /\ brightness' = brightness_state(value_data)[1]
  /\ state' = brightness_state(value_data)[2]

\* ------------------------------------------------------------ colour light
Both(chan) ==
  HasBit(chan, COLOR_CHANNEL_WARM_WHITE) /\ HasBit(chan, COLOR_CHANNEL_COLD_WHITE)
WarmOnly(chan) ==
  HasBit(chan, COLOR_CHANNEL_WARM_WHITE) /\ ~HasBit(chan, COLOR_CHANNEL_COLD_WHITE)
ColdOnly(chan) ==
  ~HasBit(chan, COLOR_CHANNEL_WARM_WHITE) /\ HasBit(chan, COLOR_CHANNEL_COLD_WHITE)
AnyRGB(chan) ==
  \/ HasBit(chan, COLOR_CHANNEL_RED)
  \/ HasBit(chan, COLOR_CHANNEL_GREEN)
  \/ HasBit(chan, COLOR_CHANNEL_BLUE)

\* Lines 198-201: the three RGB bytes; None where int() raises.
parse_rgb(data) ==
  <<ParseHex(Slice(data, 1, 3)), ParseHex(Slice(data, 3, 5)),
    ParseHex(Slice(data, 5, 7))>>

\* Lines 205-212: warm white, read at index 7 when the device has the channel.
parse_warm(chan, data) ==
  IF HasBit(chan, COLOR_CHANNEL_WARM_WHITE)
  THEN ParseHex(Slice(data, 7, 9)) ELSE 0

\* Lines 214-219: cold white, read after warm white when both are present.
parse_cold(chan, data) ==
  LET index == IF HasBit(chan, COLOR_CHANNEL_WARM_WHITE) THEN 9 ELSE 7
  IN IF HasBit(chan, COLOR_CHANNEL_COLD_WHITE)
     THEN ParseHex(Slice(data, index, index + 2)) ELSE 0

\* The cold-white scale read without the inversion.
decode_ct_uninverted(chan, warm_white, cold_white, old_ct) ==
  IF Both(chan)
  THEN IF warm_white > 0 THEN TEMP_WARM_HASS
       ELSE IF cold_white > 0 THEN TEMP_COLD_HASS ELSE TEMP_MID_HASS
  ELSE IF WarmOnly(chan) THEN BYTE_MAX * HASS_COLOR_MIN + CtSpan * warm_white
  ELSE IF ColdOnly(chan) THEN BYTE_MAX * HASS_COLOR_MIN + CtSpan * cold_white
  ELSE old_ct

\* Cold white tested before warm white on a device with both.
decode_ct_cold_first(chan, warm_white, cold_white, old_ct) ==
  IF Both(chan)
  THEN IF cold_white > 0 THEN TEMP_COLD_HASS
       ELSE IF warm_white > 0 THEN TEMP_WARM_HASS ELSE TEMP_MID_HASS
  ELSE IF WarmOnly(chan) THEN BYTE_MAX * HASS_COLOR_MIN + CtSpan * warm_white
  ELSE IF ColdOnly(chan)
  THEN BYTE_MAX * HASS_COLOR_MIN + CtSpan * (BYTE_MAX - cold_white)
  ELSE old_ct

\* self._ct with the midpoint for a device without a white channel.
decode_ct_default_mid(chan, warm_white, cold_white, old_ct) ==
  IF Both(chan)
  THEN IF warm_white > 0 THEN TEMP_WARM_HASS
       ELSE IF cold_white > 0 THEN TEMP_COLD_HASS ELSE TEMP_MID_HASS
  ELSE IF WarmOnly(chan) THEN BYTE_MAX * HASS_COLOR_MIN + CtSpan * warm_white
  ELSE IF ColdOnly(chan)
  THEN BYTE_MAX * HASS_COLOR_MIN + CtSpan * (BYTE_MAX - cold_white)
  ELSE TEMP_MID_HASS

\* Lines 221-246: self._ct (times 255); unassigned without a white channel.
decode_ct(chan, warm_white, cold_white, old_ct) ==
  IF Both(chan)
  THEN IF warm_white > 0 THEN TEMP_WARM_HASS
       ELSE IF cold_white > 0 THEN TEMP_COLD_HASS ELSE TEMP_MID_HASS
  ELSE IF WarmOnly(chan) THEN BYTE_MAX * HASS_COLOR_MIN + CtSpan * warm_white
  ELSE IF ColdOnly(chan)
  THEN BYTE_MAX * HASS_COLOR_MIN + CtSpan * (BYTE_MAX - cold_white)
  ELSE old_ct

\* self._rgb without the override of lines 249-252.
decode_rgb_no_override(chan, parsed, warm_white, cold_white, new_ct) ==
  IF Both(chan)
  THEN IF warm_white > 0 \/ cold_white > 0 THEN ct_to_rgb(new_ct) ELSE parsed
  ELSE IF WarmOnly(chan) \/ ColdOnly(chan) THEN ct_to_rgb(new_ct)
  ELSE parsed

\* Lines 221-252: self._rgb, given the parsed bytes and the new self._ct.
decode_rgb(chan, parsed, warm_white, cold_white, new_ct) ==
  IF ~AnyRGB(chan) THEN NoRGB
  ELSE IF Both(chan)
  THEN IF warm_white > 0 \/ cold_white > 0 THEN ct_to_rgb(new_ct) ELSE parsed
  ELSE IF WarmOnly(chan) \/ ColdOnly(chan) THEN ct_to_rgb(new_ct)
  ELSE parsed

\* ZwaveColorLight.update_properties, lines 191-252: the new (rgb, ct) and
\* whether int() raised; an exception leaves what was not yet assigned.
decode(chan, data, old_rgb, old_ct) ==
  LET p == parse_rgb(data)
      parsed == RGB(p[1], p[2], p[3])
      warm_white == parse_warm(chan, data)
      cold_white == parse_cold(chan, data)
      new_ct == decode_ct(chan, warm_white, cold_white, old_ct)
  IN IF None \in {p[1], p[2], p[3]}
     THEN [rgb |-> old_rgb, ct |-> old_ct, error |-> TRUE]
     ELSE IF warm_white = None \/ cold_white = None
     THEN [rgb |-> parsed, ct |-> old_ct, error |-> TRUE]
     ELSE [rgb |-> decode_rgb(chan, parsed, warm_white, cold_white, new_ct),
           ct |-> new_ct, error |-> FALSE]

\* ZwaveColorLight.update_properties
ColorLight_update_properties ==
  LET d == decode(value_color_channels, value_color, rgb, ct) IN
  /\ Dimmer_update_properties
  /\ color_channels' = value_color_channels
  /\ rgb' = d.rgb
  /\ ct' = d.ct

\* Warm-white bytes w whose temperature MIN+(MAX-MIN)*(w/255), taken back
\* through int((t-MIN)/(MAX-MIN)*255) in IEEE doubles, comes out as w-1.
WarmFloatLoss ==
  {1, 3, 5, 6, 8, 10, 13, 15, 17, 20, 22, 27, 29, 30, 34, 41, 43, 44, 46, 51,
   54, 55, 58, 61, 68, 75, 81, 82, 85, 86, 88, 92, 95, 101, 102, 108, 109,
   110, 115, 116, 122, 123, 127, 129, 136, 143, 150, 155, 157, 163, 164, 170,
   172, 177, 184, 189, 194, 196, 211, 213, 218, 220, 230, 235, 237, 244, 254}

\* Cold-white bytes c whose temperature MIN+(MAX-MIN)*((255-c)/255), taken
\* back through int(255-(t-MIN)/(MAX-MIN)*255), comes out as c-1.
ColdFloatLoss ==
  {6, 13, 16, 23, 30, 40, 47, 54, 57, 64, 68, 73, 81, 88, 95, 102, 107, 109,
   114, 116, 122, 143, 149, 150, 156}

\* Lines 283-286: int((target - MIN) / (MAX - MIN) * 255), target times 255.
warm_byte(target) ==
  LET num == target - BYTE_MAX * HASS_COLOR_MIN
      exact == num \div CtSpan
  IN IF num % CtSpan = 0 /\ exact \in WarmFloatLoss THEN exact - 1 ELSE exact

\* Lines 291-294: int(255 - (target - MIN) / (MAX - MIN) * 255).
cold_byte(target) ==
  LET num == BYTE_MAX * HASS_COLOR_MAX - target
      exact == num \div CtSpan
  IN IF num % CtSpan = 0 /\ exact \in ColdFloatLoss THEN exact - 1 ELSE exact

Black == <<"#", "0", "0", "0", "0", "0", "0">>

\* The warm/cold choice of a two-white device taken the other way round.
encode_color_temp_swapped(chan, target) ==
  IF Both(chan)
  THEN IF target > TEMP_MID_HASS THEN Black \o <<"0", "0", "F", "F">>
       ELSE Black \o <<"F", "F", "0", "0">>
  ELSE IF WarmOnly(chan) THEN Black \o FormatDec(warm_byte(target))
  ELSE IF ColdOnly(chan) THEN Black \o FormatDec(cold_byte(target))
  ELSE <<>>

\* Lines 268-294: rgbw for a colour temperature; <<>> where it stays None.
encode_color_temp(chan, target) ==
  IF Both(chan)
  THEN IF target > TEMP_MID_HASS THEN Black \o <<"F", "F", "0", "0">>
       ELSE Black \o <<"0", "0", "F", "F">>
  ELSE IF WarmOnly(chan) THEN Black \o FormatDec(warm_byte(target))
  ELSE IF ColdOnly(chan) THEN Black \o FormatDec(cold_byte(target))
  ELSE <<>>

\* Lines 299-302: rgbw for an RGB colour.
encode_rgb(color) ==
  <<"#">> \o Format02x(color.v[1]) \o Format02x(color.v[2])
    \o Format02x(color.v[3]) \o <<"0", "0", "0", "0">>

\* Lines 266-302: the payload turn_on writes.
encode(chan, kw) ==
  IF kw.color_temp # None THEN encode_color_temp(chan, kw.color_temp)
  ELSE IF kw.rgb_color # NoRGB THEN encode_rgb(kw.rgb_color)
  ELSE <<>>

\* The rgb_color property, lines 254-257.
rgb_color == rgb

\* ZwaveDimmer.turn_on, lines 131-139
Dimmer_turn_on(kw, dim_ok) ==
  /\ brightness' = IF kw.brightness # None
                   THEN DIMMER_MAX * kw.brightness ELSE brightness
  /\ state' = IF dim_ok THEN STATE_ON ELSE state

\* ZwaveColorLight.turn_on: set_rgbw answers rgbw_ok, set_dimmer dim_ok.
turn_on(kw, dim_ok, rgbw_ok) ==
  /\ constructed
  /\ hpc = "idle"
  /\ ct' = IF kw.color_temp # None /\ Both(color_channels)
           THEN IF kw.color_temp > TEMP_MID_HASS
                THEN TEMP_WARM_HASS ELSE TEMP_COLD_HASS
           ELSE ct
  /\ rgb' = IF kw.color_temp = None /\ kw.rgb_color # NoRGB
            THEN kw.rgb_color ELSE rgb
  /\ Dimmer_turn_on(kw, dim_ok)
  /\ last' = [op |-> "turn_on", kw |-> kw, dim_ok |-> dim_ok,
              rgbw_ok |-> rgbw_ok, level |-> dimmer_level(brightness'),
              rgbw |-> encode(color_channels, kw), pre |-> cache,
              error |-> FALSE, notified |-> FALSE]
  /\ UNCHANGED <<devvars, constructed, color_channels, threadvars>>
  /\ UNCHANGED env
  /\ UNCHANGED others

\* ZwaveDimmer.turn_off
turn_off(dim_ok) ==
  /\ constructed
  /\ hpc = "idle"
  /\ state' = IF dim_ok THEN STATE_OFF ELSE state
  /\ last' = [Op("turn_off") EXCEPT !.dim_ok = dim_ok, !.level = 0]
  /\ UNCHANGED <<devvars, constructed, brightness, color_channels, rgb, ct,
                 threadvars>>
  /\ UNCHANGED env
  /\ UNCHANGED others

\* ZwaveColorLight.__init__ / ZwaveDimmer.__init__: line 83 runs
\* update_properties on the fields set to None at lines 159-163 and 81-82.
construct ==
  /\ ~constructed
  /\ constructed' = TRUE
  /\ ColorLight_update_properties
  /\ last' = [Op("construct") EXCEPT
                !.error = decode(value_color_channels, value_color, rgb, ct).error]
  /\ UNCHANGED <<devvars, threadvars>>
  /\ UNCHANGED env
  /\ UNCHANGED others

\* --------------------------------------------------- debounced refresh
\* threading.Timer: is_alive() from start() until run() returns.
isAlive(t) == t.pc \in {"wait", "run", "flag"}

\* A cancel that does not stop the waiting timer.
cancel_ignored(t) == t

\* Timer.cancel(): sets the finished event; a timer still waiting then
\* never calls its function, one already past the wait is not stopped.
cancel(t) == IF t.pc = "wait" THEN [t EXCEPT !.pc = "cancelled"] ELSE t

\* Lines 111-112 left out: the old timer is never cancelled.
cancel_pending_skipped(ts) == ts

\* Lines 111-112: cancel self._timer when there is one and it is alive.
cancel_pending(ts) ==
  IF ts # <<>> /\ isAlive(ts[Len(ts)])
  THEN [ts EXCEPT ![Len(ts)] = cancel(ts[Len(ts)])]
  ELSE ts

\* Timer(2, _refresh_value).start()
new_timer(at) == [pc |-> "wait", start |-> at, issued |-> None]

\* TIMER_PENDING: a started timer has neither fired nor been cancelled.
TimerPending == \E i \in 1..Len(timers) : timers[i].pc = "wait"

\* self.update_properties(): the method of the entity's class. Only a
\* ZwaveColorLight has _color_channels.
update_properties ==
  IF color_channels # None
  THEN ColorLight_update_properties
  ELSE Dimmer_update_properties /\ UNCHANGED <<color_channels, rgb, ct>>

\* int() raised ValueError inside update_properties.
update_properties_raises ==
  /\ color_channels # None
  /\ decode(value_color_channels, value_color, rgb, ct).error

\* _value_changed without the id filter of lines 99-100.
value_changed_unfiltered(vid, d) ==
  /\ constructed
  /\ hpc = "idle"
  /\ value_data' = IF vid = VALUE_ID THEN d ELSE value_data
  /\ refreshing \/ Len(timers) < MaxTimers
  /\ hpc' = IF refreshing THEN "consume" ELSE "restart"
  /\ last' = Op(IF vid = VALUE_ID THEN "value_changed" ELSE "foreign")
  /\ UNCHANGED <<value_color, value_color_channels, lightvars,
                 refreshing, timers, now, inflight>>
  /\ UNCHANGED others

\* _value_changed, lines 97-102: the id filter and the read of _refreshing.
value_changed(vid, d) ==
  /\ constructed
  /\ hpc = "idle"
  /\ IF vid # VALUE_ID
     THEN /\ last' = Op("foreign")
          /\ UNCHANGED <<devvars, lightvars, threadvars, env>>
     ELSE /\ value_data' = d
          /\ refreshing \/ Len(timers) < MaxTimers
          /\ hpc' = IF refreshing THEN "consume" ELSE "restart"
          /\ last' = Op("value_changed")
          /\ UNCHANGED <<value_color, value_color_channels, lightvars,
                         refreshing, timers, now, inflight>>
  /\ UNCHANGED others

\* The consumed branch without line 103: the flag is never cleared.
value_changed_consume_keeps_flag ==
  /\ hpc = "consume"
  /\ update_properties
  /\ inflight' = 0
  /\ hpc' = "idle"
  /\ last' = [Op("consume") EXCEPT !.notified = TRUE]
  /\ UNCHANGED <<devvars, constructed, refreshing, timers, now, env>>
  /\ UNCHANGED others

\* _value_changed, lines 103-104 and 117: the notification is the refresh result.
value_changed_consume ==
  /\ hpc = "consume"
  /\ refreshing' = FALSE
  /\ update_properties
  /\ inflight' = 0
  /\ hpc' = "idle"
  /\ last' = [Op("consume") EXCEPT
                !.error = update_properties_raises,
                !.notified = ~update_properties_raises]
  /\ UNCHANGED <<devvars, constructed, timers, now, env>>
  /\ UNCHANGED others

\* The restart branch reading the device as well.
value_changed_restart_updates ==
  /\ hpc = "restart"
  /\ timers' = Append(cancel_pending(timers), new_timer(now))
  /\ hpc' = "idle"
  /\ update_properties
  /\ last' = [Op("restart") EXCEPT !.notified = TRUE]
  /\ UNCHANGED <<devvars, constructed, refreshing, now, inflight, env>>
  /\ UNCHANGED others

\* _value_changed, lines 106-117: cancel the pending timer, start a new one.
value_changed_restart ==
  /\ hpc = "restart"
  /\ timers' = Append(cancel_pending(timers), new_timer(now))
  /\ hpc' = "idle"
  /\ last' = [Op("restart") EXCEPT !.notified = TRUE]
  /\ UNCHANGED <<devvars, lightvars, refreshing, now, inflight>>
  /\ UNCHANGED env
  /\ UNCHANGED others

\* Timer.run: the wait timed out and the finished event is not set.
timer_expire(i) ==
  /\ timers[i].pc = "wait"
  /\ now >= timers[i].start + Delay
  /\ timers' = [timers EXCEPT ![i].pc = "run"]
  /\ last' = Op("expire")
  /\ UNCHANGED <<devvars, lightvars, refreshing, hpc, now, inflight>>
  /\ UNCHANGED env
  /\ UNCHANGED others

\* _refresh_value, line 108
refresh_value_flag(i) ==
  /\ timers[i].pc = "run"
  /\ refreshing' = TRUE
  /\ timers' = [timers EXCEPT ![i].pc = "flag"]
  /\ last' = Op("flag")
  /\ UNCHANGED <<devvars, lightvars, hpc, now, inflight>>
  /\ UNCHANGED env
  /\ UNCHANGED others

\* _refresh_value, line 109: self._value.refresh(); the timer thread ends.
refresh_value_refresh(i) ==
  /\ timers[i].pc = "flag"
  /\ timers' = [timers EXCEPT ![i].pc = "done", ![i].issued = now]
  /\ inflight' = inflight + 1
  /\ last' = Op("refresh")
  /\ UNCHANGED <<devvars, lightvars, refreshing, hpc, now>>
  /\ UNCHANGED env
  /\ UNCHANGED others

\* No thread has a step to take: the handler has returned, no timer
\* callback is running and no waiting timer is due.
NoThreadStep ==
  /\ hpc = "idle"
  /\ \A i \in 1..Len(timers) :
       /\ timers[i].pc \notin {"run", "flag"}
       /\ timers[i].pc = "wait" => now < timers[i].start + Delay

\* Time passes when no thread has a step to take.
Tick ==
  /\ now < MaxTime
  /\ NoThreadStep
  /\ now' = now + 1
  /\ last' = Op("tick")
  /\ UNCHANGED <<devvars, lightvars, refreshing, timers, hpc, inflight>>
  /\ UNCHANGED env
  /\ UNCHANGED others

Levels == {0, 50, DIMMER_MAX}

\* A constructed ZwaveDimmer: __init__, lines 75-90; ext external changes
\* of the device are still to come.
InitDimmer(levels, ext) ==
  /\ value_data \in levels
  /\ value_color = <<>>
  /\ value_color_channels = 0
  /\ constructed = TRUE
  /\ brightness = brightness_state(value_data)[1]
  /\ state = brightness_state(value_data)[2]
  /\ color_channels = None
  /\ rgb = NoRGB
  /\ ct = None
  /\ refreshing = FALSE
  /\ timers = <<>>
  /\ hpc = "idle"
  /\ now = 0
  /\ inflight = 0
  /\ env = [delivered |-> 0, external |-> ext]
  /\ last = [op |-> "init", kw |-> NoKw, dim_ok |-> TRUE, rgbw_ok |-> TRUE,
             level |-> None, rgbw |-> <<>>,
             pre |-> <<None, STATE_OFF, NoRGB, None>>, error |-> FALSE,
             notified |-> FALSE]
  /\ OthersNotSetUp

InitDebounce == InitDimmer(Levels, 0)

NextDebounce ==
  \/ \E vid \in {VALUE_ID, OTHER_ID}, d \in Levels :
       value_changed(vid, d) /\ UNCHANGED env
  \/ value_changed_consume
  \/ value_changed_restart
  \/ \E i \in 1..Len(timers) : timer_expire(i)
  \/ \E i \in 1..Len(timers) : refresh_value_flag(i)
  \/ \E i \in 1..Len(timers) : refresh_value_refresh(i)
  \/ Tick

SpecDebounce == InitDebounce /\ [][NextDebounce]_vars

\* ------------------------------------------------------- devices and inputs
\* How many white channels the capability mask declares.
WhiteCount(chan) ==
  (IF HasBit(chan, COLOR_CHANNEL_WARM_WHITE) THEN 1 ELSE 0)
  + (IF HasBit(chan, COLOR_CHANNEL_COLD_WHITE) THEN 1 ELSE 0)

\* Capability bitmasks: no colour, each white alone, both whites; with and
\* without the three RGB channels.
RGBBits == COLOR_CHANNEL_RED + COLOR_CHANNEL_GREEN + COLOR_CHANNEL_BLUE
CapSets == {w + c : w \in 0..3, c \in {0, RGBBits}}

\* The device's payload text: upper-case hex digits.
DeviceHex(v) == <<UpperHex[(v \div 16) + 1], UpperHex[(v % 16) + 1]>>

DevicePayload(color, whites) ==
  <<"#">> \o DeviceHex(color[1]) \o DeviceHex(color[2]) \o DeviceHex(color[3])
    \o (IF Len(whites) >= 1 THEN DeviceHex(whites[1]) ELSE <<>>)
    \o (IF Len(whites) >= 2 THEN DeviceHex(whites[2]) ELSE <<>>)

\* Payloads a device with capabilities chan reports: one byte per white
\* channel it has, drawn from ws on a one-white device, ws2 on a two-white.
Payloads(chan, colors, ws, ws2) ==
  IF Both(chan)
  THEN {DevicePayload(c, <<w1, w2>>) : c \in colors, w1 \in ws2, w2 \in ws2}
  ELSE IF WarmOnly(chan) \/ ColdOnly(chan)
  THEN {DevicePayload(c, <<w>>) : c \in colors, w \in ws}
  ELSE {DevicePayload(c, <<>>) : c \in colors}

Colors == {<<26, 43, 60>>, <<BYTE_MAX, 0, 0>>}

InitLight(levels, chans, colors, ws, ws2) ==
  /\ value_data \in levels
  /\ value_color_channels \in chans
  /\ value_color \in Payloads(value_color_channels, colors, ws, ws2)
  /\ constructed = FALSE
  /\ brightness = None
  /\ state = STATE_OFF
  /\ color_channels = None
  /\ rgb = NoRGB
  /\ ct = None
  /\ refreshing = FALSE
  /\ timers = <<>>
  /\ hpc = "idle"
  /\ now = 0
  /\ inflight = 0
  /\ env = [delivered |-> 0, external |-> 0]
  /\ last = [op |-> "init", kw |-> NoKw, dim_ok |-> TRUE, rgbw_ok |-> TRUE,
             level |-> None, rgbw |-> <<>>,
             pre |-> <<None, STATE_OFF, NoRGB, None>>, error |-> FALSE,
             notified |-> FALSE]
  /\ OthersNotSetUp

\* Decoding: every white-channel byte; the client then asks for the
\* temperature the entity reports.
InitDecode == InitLight({50}, CapSets, Colors, 0..BYTE_MAX, {0, 1, BYTE_MAX})

NextDecode ==
  \/ construct
  \/ /\ ct # None
     /\ last.op # "turn_on"
     /\ \E dim_ok \in BOOLEAN :
          turn_on([NoKw EXCEPT !.color_temp = ct], dim_ok, TRUE)

SpecDecode == InitDecode /\ [][NextDecode]_vars

\* Encoding: every whole-mired target from MIN to MAX is asked of the
\* entity as constructed; later commands draw from a small set.
Targets == {BYTE_MAX * t : t \in HASS_COLOR_MIN..HASS_COLOR_MAX}

EncodeKw ==
  {[NoKw EXCEPT !.color_temp = t] : t \in Targets}
  \cup {[brightness |-> b, color_temp |-> t, rgb_color |-> c] :
          b \in {None, 128},
          t \in {None, TEMP_MID_HASS},
          c \in {NoRGB, RGB(BYTE_MAX, 0, 0)}}

InitEncode == InitLight({50}, CapSets, {<<26, 43, 60>>}, {0}, {0})

NextEncode ==
  \/ construct
  \/ \E kw \in EncodeKw, dim_ok \in BOOLEAN, rgbw_ok \in BOOLEAN :
       /\ (~dim_ok \/ ~rgbw_ok \/ last.op # "construct") =>
            kw.color_temp \in {None, TEMP_MID_HASS}
       /\ turn_on(kw, dim_ok, rgbw_ok)
  \/ \E dim_ok \in BOOLEAN : turn_off(dim_ok)

SpecEncode == InitEncode /\ [][NextEncode]_vars

\* ------------------------------------------------ the device goes quiet
\* Refresh requests the transport has not answered yet.
Outstanding ==
  Cardinality({i \in 1..Len(timers) : timers[i].issued # None}) - env.delivered

\* The device changes its level and the library signals it.
external_change(d) ==
  /\ env.external > 0
  /\ value_changed(VALUE_ID, d)
  /\ env' = [env EXCEPT !.external = @ - 1]

\* The transport answers a refresh request, line 109: the value is read
\* back from the device and signalled under the same id.
refresh_result ==
  /\ Outstanding > 0
  /\ value_changed(VALUE_ID, value_data)
  /\ env' = [env EXCEPT !.delivered = @ + 1]

\* A timer seen one tick later.
Slide(t) ==
  [t EXCEPT !.start = IF @ > 0 THEN @ - 1 ELSE 0,
            !.issued = IF @ > 0 THEN @ - 1 ELSE @]

\* Time passes without end: at the horizon the clock stays and every
\* recorded time slides back one tick instead.
TickOn ==
  /\ NoThreadStep
  /\ IF now < MaxTime
     THEN now' = now + 1 /\ UNCHANGED timers
     ELSE now' = now /\ timers' = [i \in 1..Len(timers) |-> Slide(timers[i])]
  /\ last' = Op("tick")
  /\ UNCHANGED <<devvars, lightvars, refreshing, hpc, inflight, env>>
  /\ UNCHANGED others

\* External changes before the device goes quiet: as many as the timers
\* allowed can serve, the first taking one timer and each later one two.
MaxExternal == (MaxTimers + 1) \div 2

InitConverge == InitDimmer({0, 50}, MaxExternal)

NextConverge ==
  \/ \E d \in {0, 50} : external_change(d)
  \/ refresh_result
  \/ value_changed_consume
  \/ value_changed_restart
  \/ \E i \in 1..Len(timers) : timer_expire(i)
  \/ \E i \in 1..Len(timers) : refresh_value_flag(i)
  \/ \E i \in 1..Len(timers) : refresh_value_refresh(i)
  \/ TickOn

\* Every thread that can run does run, time passes, and the transport
\* answers every refresh request.
SpecConverge ==
  /\ InitConverge
  /\ [][NextConverge]_vars
  /\ WF_vars(refresh_result)
  /\ WF_vars(value_changed_consume)
  /\ WF_vars(value_changed_restart)
  /\ WF_vars(\E i \in 1..Len(timers) : timer_expire(i))
  /\ WF_vars(\E i \in 1..Len(timers) : refresh_value_flag(i))
  /\ WF_vars(\E i \in 1..Len(timers) : refresh_value_refresh(i))
  /\ WF_vars(TickOn)

\* ------------------------------------------- a colour light in service
\* The library stores a new colour payload and signals it under the colour
\* value's id, which _value_changed, lines 99-100, does not handle.
color_value_changed(p) ==
  /\ constructed
  /\ hpc = "idle"
  /\ value_color' = p
  /\ last' = Op("foreign")
  /\ UNCHANGED <<value_data, value_color_channels, lightvars, threadvars, env>>
  /\ UNCHANGED others

LightCaps == {RGBBits, COLOR_CHANNEL_WARM_WHITE + RGBBits,
              COLOR_CHANNEL_WARM_WHITE + COLOR_CHANNEL_COLD_WHITE}

\* Payloads int() cannot read: no white bytes, or letters that are not hex.
Malformed ==
  {DevicePayload(<<26, 43, 60>>, <<>>),
   <<"#", "1", "A", "2", "B", "Z", "Z", "8", "0", "8", "0">>}

\* Colours a device without a white channel reports.
ServiceColors == {<<26, 43, 60>>, <<0, 128, BYTE_MAX>>}

LightPayloads(chan) ==
  Payloads(chan, IF WhiteCount(chan) = 0 THEN ServiceColors ELSE {<<26, 43, 60>>},
           {0, 128}, {0, 128}) \cup Malformed

LightKw ==
  {[NoKw EXCEPT !.color_temp = TEMP_MID_HASS],
   [NoKw EXCEPT !.rgb_color = RGB(BYTE_MAX, 0, 0)]}

InitService ==
  InitLight({50}, LightCaps, {<<26, 43, 60>>}, {128}, {128})

NextService ==
  \/ construct
  \/ \E d \in {0, 50} :
       /\ refreshing \/ Len(timers) < ServiceTimers
       /\ value_changed(VALUE_ID, d)
       /\ UNCHANGED env
  \/ \E p \in LightPayloads(value_color_channels) : color_value_changed(p)
  \/ value_changed_consume
  \/ value_changed_restart
  \/ \E i \in 1..Len(timers) : timer_expire(i)
  \/ \E i \in 1..Len(timers) : refresh_value_flag(i)
  \/ \E i \in 1..Len(timers) : refresh_value_refresh(i)
  \/ Tick
  \/ \E kw \in LightKw : turn_on(kw, TRUE, TRUE)

SpecService == InitService /\ [][NextService]_vars

\* ------------------------------------------------------ every raw level
RawLevels == 0..DIMMER_MAX

InitLevels == InitLight(RawLevels, {RGBBits}, {<<26, 43, 60>>}, {0}, {0})

\* ATTR_BRIGHTNESS as the host passes it.
Brightnesses == 0..BYTE_MAX

NextLevels ==
  \/ construct
  \/ turn_on(NoKw, TRUE, TRUE)
  \/ \E b \in Brightnesses :
       /\ last.op = "construct"
       /\ turn_on([NoKw EXCEPT !.brightness = b], TRUE, TRUE)
  \/ turn_off(TRUE)

SpecLevels == InitLevels /\ [][NextLevels]_vars

\* ------------------------------------------------------- deCONZ covers
\* The lights of the gateway in test_cover.py, lines 12-53: type and the
\* 'on' flag of the state; light "3" has no 'on' flag.
NoFlag == "none"

COVERS ==
  [id \in {"1", "2", "3", "4", "5"} |->
     CASE id = "1" -> [type |-> "Level controllable output", on |-> FALSE]
       [] id = "2" -> [type |-> "Window covering device", on |-> TRUE]
       [] id = "3" -> [type |-> "Not a cover", on |-> NoFlag]
       [] id = "4" -> [type |-> "Level controllable output", on |-> FALSE]
       [] id = "5" -> [type |-> "Window covering controller", on |-> TRUE]]

\* The light types the cover platform makes entities for.
COVER_TYPES ==
  {"Level controllable output", "Window covering device",
   "Window covering controller"}

\* A cover that reports open for a light that is on.
cover_state_inverted(on) == IF on = TRUE THEN "open" ELSE "closed"

\* The state of a cover entity: closed when the light is on.
cover_state(on) == IF on = TRUE THEN "closed" ELSE "open"

not_deconz == <<zwavevars, graphite, locative, shelly, sonos, ps4>>

\* The other integrations are not set up and no Z-Wave light exists.
ZwaveAbsent ==
  /\ value_data = 0
  /\ value_color = <<>>
  /\ value_color_channels = 0
  /\ constructed = FALSE
  /\ brightness = None
  /\ state = STATE_OFF
  /\ color_channels = None
  /\ rgb = NoRGB
  /\ ct = None
  /\ refreshing = FALSE
  /\ timers = <<>>
  /\ hpc = "idle"
  /\ now = 0
  /\ inflight = 0
  /\ env = [delivered |-> 0, external |-> 0]
  /\ last = [op |-> "init", kw |-> NoKw, dim_ok |-> TRUE, rgbw_ok |-> TRUE,
             level |-> None, rgbw |-> <<>>,
             pre |-> <<None, STATE_OFF, NoRGB, None>>, error |-> FALSE,
             notified |-> FALSE]

\* setup_deconz_integration, line 76: the gateway holds the lights and the
\* cover platform adds an entity, with its state, for each supported light.
InitCover ==
  /\ ZwaveAbsent
  /\ deconz = [phase |-> "setup",
               lights |-> COVERS,
               states |-> [id \in {i \in DOMAIN COVERS : COVERS[i].type \in COVER_TYPES}
                             |-> cover_state(COVERS[id].on)],
               event |-> "none",
               pre |-> << >>]
  /\ graphite = NotSetUp
  /\ locative = NotSetUp
  /\ shelly = NotSetUp
  /\ sonos = NotSetUp
  /\ ps4 = NotSetUp

\* gateway.api.event_handler, lines 87-97 and 147-156: a state-changed
\* event for light id carrying the 'on' flag; the light's cover entity, if
\* there is one, writes its state.
event_handler(id, on) ==
  /\ deconz.phase = "setup"
  /\ deconz' = [deconz EXCEPT
                  !.lights[id].on = on,
                  !.states = [c \in DOMAIN deconz.states |->
                                IF c = id THEN cover_state(on) ELSE deconz.states[c]],
                  !.event = id,
                  !.pre = deconz.states]
  /\ UNCHANGED not_deconz

\* gateway.async_reset, line 163: the entities are removed.
async_reset ==
  /\ deconz.phase = "setup"
  /\ deconz' = [deconz EXCEPT !.phase = "reset", !.states = << >>,
                                !.event = "reset", !.pre = deconz.states]
  /\ UNCHANGED not_deconz

NextCover ==
  \/ \E id \in DOMAIN COVERS, on \in BOOLEAN : event_handler(id, on)
  \/ async_reset

SpecCover == InitCover /\ [][NextCover]_vars

\* ------------------------------------------------------ GraphiteFeeder
\* self._quit_object
QUIT == [kind |-> "quit", n |-> 0]

\* What a state-changed event carries: a new state, None for new_state
\* (the key is there, the entity was removed), or no 'new_state' key.
EventKinds == {"state", "removed", "nokey"}

not_graphite == <<zwavevars, deconz, locative, shelly, sonos, ps4>>

\* GraphiteFeeder.__init__, lines 42-58: an empty queue, the thread not
\* started, the three listeners registered.
InitFeeder ==
  /\ ZwaveAbsent
  /\ graphite = [queue |-> << >>,       \* self._queue
                 thread |-> "new",      \* the Thread: new, running, returned, raised
                 start_heard |-> FALSE, \* listen_once(EVENT_HOMEASSISTANT_START) fired
                 stop_heard |-> FALSE,  \* listen_once(EVENT_HOMEASSISTANT_STOP) fired
                 log |-> << >>,         \* everything ever put on the queue
                 reported |-> << >>]    \* events _report_attributes has dealt with
  /\ deconz = NotSetUp
  /\ locative = NotSetUp
  /\ shelly = NotSetUp
  /\ sonos = NotSetUp
  /\ ps4 = NotSetUp

\* start_listen, lines 59-61
start_listen ==
  /\ ~graphite.start_heard
  /\ graphite' = [graphite EXCEPT !.start_heard = TRUE, !.thread = "running"]
  /\ UNCHANGED not_graphite

\* shutdown, lines 63-70
shutdown ==
  /\ ~graphite.stop_heard
  /\ graphite' = [graphite EXCEPT !.stop_heard = TRUE,
                                  !.queue = Append(@, QUIT),
                                  !.log = Append(@, QUIT)]
  /\ UNCHANGED not_graphite

\* event_listener, lines 72-74; the event is numbered by its place in the log.
event_listener(kind) ==
  /\ Len(graphite.log) < MaxEvents + 1
  /\ LET event == [kind |-> kind, n |-> Len(graphite.log) + 1]
     IN graphite' = [graphite EXCEPT !.queue = Append(@, event),
                                     !.log = Append(@, event)]
  /\ UNCHANGED not_graphite

\* run, lines 104-114, one turn of the loop: get() the oldest item; the
\* sentinel ends the thread; an event with a new state goes to
\* _report_attributes, where new_state.attributes (line 86) raises
\* AttributeError on None and ends the thread.
run ==
  /\ graphite.thread = "running"
  /\ graphite.queue # << >>
  /\ LET event == Head(graphite.queue)
         rest == Tail(graphite.queue)
     IN graphite' =
          IF event = QUIT
          THEN [graphite EXCEPT !.queue = rest, !.thread = "returned"]
          ELSE IF event.kind = "state"
          THEN [graphite EXCEPT !.queue = rest, !.reported = Append(@, event)]
          ELSE IF event.kind = "removed"
          THEN [graphite EXCEPT !.queue = rest, !.thread = "raised"]
          ELSE [graphite EXCEPT !.queue = rest]
  /\ UNCHANGED not_graphite

NextFeeder ==
  \/ start_listen
  \/ shutdown
  \/ \E kind \in EventKinds : event_listener(kind)
  \/ run

SpecFeeder == InitFeeder /\ [][NextFeeder]_vars

\* ---------------------------------------------------- Locative webhook
STATE_NOT_HOME == "not_home"

\* hass.states.get(...) is None: the device has no state.
NoState == "none"

\* Location ids, lower-cased as line 57 does.
Zones == {"a", "b"}

not_locative == <<zwavevars, deconz, graphite, shelly, sonos, ps4>>

\* async_setup_entry, lines 104-108: the webhook is registered; the device
\* has not been seen.
InitLocative ==
  /\ ZwaveAbsent
  /\ locative = [state |-> NoState,   \* the state of device_tracker.<device>
                 pending |-> << >>,   \* TRACKER_UPDATE signals sent, not yet applied
                 calls |-> << >>,     \* the webhook messages handled so far
                 seen |-> NoState,    \* current_state as the last call read it
                 sent |-> << >>]      \* what the last call dispatched
  /\ deconz = NotSetUp
  /\ graphite = NotSetUp
  /\ shelly = NotSetUp
  /\ sonos = NotSetUp
  /\ ps4 = NotSetUp

\* What handle_webhook dispatches, lines 61-91, for the state it reads.
dispatch(direction, location_name, current_state) ==
  IF direction = "enter" THEN <<location_name>>
  ELSE IF direction = "exit"
  THEN IF current_state = NoState \/ current_state = location_name
       THEN <<STATE_NOT_HOME>>
       ELSE << >>
  ELSE << >>

\* handle_webhook, lines 33-98, for a message with every field present.
handle_webhook(direction, location_name) ==
  /\ Len(locative.calls) < MaxWebhooks
  /\ LET sent == dispatch(direction, location_name, locative.state)
     IN locative' = [locative EXCEPT
                       !.pending = @ \o sent,
                       !.calls = Append(@, <<direction, location_name>>),
                       !.seen = locative.state,
                       !.sent = sent]
  /\ UNCHANGED not_locative

\* The device tracker's listener for TRACKER_UPDATE sets the state; the
\* dispatcher runs it after handle_webhook has returned.
tracker_update ==
  /\ locative.pending # << >>
  /\ locative' = [locative EXCEPT !.state = Head(locative.pending),
                                  !.pending = Tail(@)]
  /\ UNCHANGED not_locative

NextLocative ==
  \/ \E direction \in {"enter", "exit", "test"}, location_name \in Zones :
       handle_webhook(direction, location_name)
  \/ tracker_update

SpecLocative == InitLocative /\ [][NextLocative]_vars

\* ------------------------------------------------ Shelly BlockRelaySwitch
\* control_result is None (line 102, line 125).
NoResult == << >>

\* The turns async_turn_on and async_turn_off pass to set_state.
Turns == {"on", "off"}

\* What set_state returns: the relay's status as the device answered it.
ControlResults == {<<[ison |-> ison]>> : ison \in BOOLEAN}

not_shelly == <<zwavevars, deconz, graphite, locative, sonos, ps4>>

\* is_on, lines 104-110: the control result overrides the block's output.
is_on(control_result, output) ==
  IF control_result # NoResult THEN control_result[1].ison ELSE output

\* __init__, lines 99-102, for a block whose relay is on or off.
InitRelay ==
  /\ ZwaveAbsent
  /\ \E output \in BOOLEAN :
       shelly = [control_result |-> NoResult,
                 output |-> output,        \* block.output
                 state |-> output,         \* the state last written to the host
                 awaiting |-> << >>,       \* set_state calls not yet answered
                 issued |-> 0,             \* commands started so far
                 event |-> "init",         \* the last handler that finished
                 result |-> NoResult]      \* what the last answered set_state returned
  /\ deconz = NotSetUp
  /\ graphite = NotSetUp
  /\ locative = NotSetUp
  /\ sonos = NotSetUp
  /\ ps4 = NotSetUp

\* async_turn_on / async_turn_off, lines 112-120, up to the await: the
\* request set_state(turn=...) is on its way to the device.
async_turn(turn) ==
  /\ shelly.issued < MaxCommands
  /\ shelly' = [shelly EXCEPT !.awaiting = Append(@, turn),
                              !.issued = @ + 1]
  /\ UNCHANGED not_shelly

\* async_turn_on / async_turn_off, lines 112-120, from the await on: the
\* i-th request is answered with a control result, which is stored, and the
\* state is written.
async_turn_done(i, control_result) ==
  /\ i \in 1..Len(shelly.awaiting)
  /\ shelly' = [shelly EXCEPT
                  !.control_result = control_result,
                  !.state = is_on(control_result, shelly.output),
                  !.awaiting = SubSeq(@, 1, i - 1) \o SubSeq(@, i + 1, Len(@)),
                  !.event = "command",
                  !.result = control_result]
  /\ UNCHANGED not_shelly

\* An update callback that keeps the control result.
update_callback_keeps_result(output) ==
  /\ shelly' = [shelly EXCEPT
                  !.output = output,
                  !.state = is_on(shelly.control_result, output),
                  !.event = "update"]
  /\ UNCHANGED not_shelly

\* _update_callback, lines 122-126, after the device has reported the
\* block's output: the control result is cleared and the state is written.
update_callback(output) ==
  /\ shelly' = [shelly EXCEPT
                  !.control_result = NoResult,
                  !.output = output,
                  !.state = is_on(NoResult, output),
                  !.event = "update"]
  /\ UNCHANGED not_shelly

NextRelay ==
  \/ \E turn \in Turns : async_turn(turn)
  \/ \E i \in 1..MaxCommands, control_result \in ControlResults :
       async_turn_done(i, control_result)
  \/ \E output \in BOOLEAN : update_callback(output)

SpecRelay == InitRelay /\ [][NextRelay]_vars

\* ------------------------------------------------------- Sonos discovery
not_sonos == <<zwavevars, deconz, graphite, locative, shelly, ps4>>

\* async_setup_entry, lines 79-186, with 0..MaxHosts hosts configured: a new
\* SonosData (lines 58-59), the first _discovery queued for the executor
\* (line 183) and _stop_discovery listening for the stop event (line 184).
InitDiscovery ==
  /\ ZwaveAbsent
  /\ \E hosts \in 0..MaxHosts :
       sonos = [hosts |-> hosts,             \* Len(config[CONF_HOSTS])
                job |-> "queued",            \* a _discovery pass: queued, running, idle
                tested |-> 0,                \* hosts the running pass has tested
                discovered |-> {},           \* data.discovered, by host
                passes |-> 1,                \* passes queued so far
                timers |-> << >>,            \* every call_later handle: armed, fired, cancelled
                hosts_heartbeat |-> 0,       \* data.hosts_heartbeat: a handle, 0 for None
                thread |-> "none",           \* the pysonos discover thread
                discovery_thread |-> FALSE,  \* data.discovery_thread is not None
                stop_heard |-> FALSE]        \* _stop_discovery has run
  /\ deconz = NotSetUp
  /\ graphite = NotSetUp
  /\ locative = NotSetUp
  /\ shelly = NotSetUp
  /\ ps4 = NotSetUp

\* The executor starts a queued _discovery, line 100.
discovery_start ==
  /\ sonos.job = "queued"
  /\ sonos' = [sonos EXCEPT !.job = "running", !.tested = 0]
  /\ UNCHANGED not_sonos

\* _discovery, lines 148-160: one host of the list is tested; a visible
\* player that answers is recorded (lines 110-111), any other is passed over.
discovery_test_host(found) ==
  /\ sonos.job = "running"
  /\ sonos.tested < sonos.hosts
  /\ sonos' = [sonos EXCEPT
                 !.tested = @ + 1,
                 !.discovered = IF found THEN @ \cup {sonos.tested + 1} ELSE @]
  /\ UNCHANGED not_sonos

\* _discovery, lines 162-172: with hosts, all are tested and the heartbeat
\* is armed for the next pass; without, the discovery thread is started.
discovery_finish ==
  /\ sonos.job = "running"
  /\ sonos.tested = sonos.hosts
  /\ IF sonos.hosts > 0
     THEN sonos' = [sonos EXCEPT !.job = "idle",
                                 !.timers = Append(@, "armed"),
                                 !.hosts_heartbeat = Len(sonos.timers) + 1]
     ELSE sonos' = [sonos EXCEPT !.job = "idle",
                                 !.thread = "running",
                                 !.discovery_thread = TRUE]
  /\ UNCHANGED not_sonos

\* The heartbeat armed at lines 163-165 fires: _discovery is queued again.
heartbeat ==
  /\ sonos.passes < MaxPasses
  /\ \E i \in 1..Len(sonos.timers) :
       /\ sonos.timers[i] = "armed"
       /\ sonos' = [sonos EXCEPT !.timers[i] = "fired",
                                 !.job = "queued",
                                 !.passes = @ + 1]
  /\ UNCHANGED not_sonos

\* _stop_discovery, lines 91-98, on the stop event (listened for once).
\* Cancelling a handle that has fired changes nothing.
stop_discovery ==
  /\ ~sonos.stop_heard
  /\ LET h == sonos.hosts_heartbeat
     IN sonos' = [sonos EXCEPT
                    !.thread = IF sonos.discovery_thread THEN "stopped" ELSE @,
                    !.discovery_thread = FALSE,
                    !.timers = IF h # 0 /\ @[h] = "armed"
                               THEN [@ EXCEPT ![h] = "cancelled"] ELSE @,
                    !.hosts_heartbeat = 0,
                    !.stop_heard = TRUE]
  /\ UNCHANGED not_sonos

NextDiscovery ==
  \/ discovery_start
  \/ \E found \in BOOLEAN : discovery_test_host(found)
  \/ discovery_finish
  \/ heartbeat
  \/ stop_discovery

SpecDiscovery == InitDiscovery /\ [][NextDiscovery]_vars

\* ------------------------------------------------- PS4 entry migration
not_ps4 == <<zwavevars, deconz, graphite, locative, shelly, sonos>>

\* entry.data[CONF_TOKEN]: credentials of four characters or fewer, and more.
Tokens == {<<"a", "b", "c">>, <<"a", "b", "c", "d", "e", "f">>}

\* What async_detect_location_info gives, lines 78-83: nothing, a country
\* the library does not list, a country it lists.
Locations == {"none", "unlisted", "listed"}

ObjectIds == <<"1", "2", "3", "4", "5">>

\* The i-th entity of the registry, before any migration.
Entity(i, mine) ==
  [entity_id |-> <<"media_player", ObjectIds[i]>>,
   unique_id |-> <<"m", ObjectIds[i]>>,
   mine |-> mine]                 \* config_entry_id == entry.entry_id

Registries ==
  UNION {{[i \in 1..n |-> Entity(i, mine[i])] : mine \in [1..n -> BOOLEAN]}
         : n \in 0..MaxEntities}

\* creds[-4:], line 136.
Last4(creds) ==
  IF Len(creds) <= 4 THEN creds ELSE SubSeq(creds, Len(creds) - 3, Len(creds))

\* format_unique_id, lines 134-137.
format_unique_id(creds, mac_address) == mac_address \o <<"_">> \o Last4(creds)

\* Before the migration hook is called: an entry of version 1 or 2.
InitMigrate ==
  /\ ZwaveAbsent
  /\ \E version \in {1, 2}, token \in Tokens, entities \in Registries :
       ps4 = [version |-> version,
              token |-> token,
              region |-> "old",          \* device[CONF_REGION] of the entry's devices
              entities |-> entities,     \* registry.entities, in order
              before |-> entities,       \* the registry as the migration found it
              started |-> version,       \* the version it found
              notified |-> FALSE,        \* the persistent notification exists
              result |-> "none"]         \* what async_migrate_entry returned
  /\ deconz = NotSetUp
  /\ graphite = NotSetUp
  /\ locative = NotSetUp
  /\ shelly = NotSetUp
  /\ sonos = NotSetUp

\* Lines 77-90: the version after the region step.
region_version(version, loc) ==
  IF version = 1 /\ loc = "listed" THEN 2 ELSE version

\* The first entity of the entry in registry order, 0 if it has none
\* (lines 97-98).
first_mine(entities) ==
  IF \E i \in 1..Len(entities) : entities[i].mine
  THEN CHOOSE i \in 1..Len(entities) :
         /\ entities[i].mine
         /\ \A j \in 1..(i - 1) : ~entities[j].mine
  ELSE 0

\* Lines 99-114: entity i is removed and created again with the formatted
\* unique id and the object id of its old entity_id.
recreate(entities, i, token) ==
  LET e == entities[i]
      new_id == e.entity_id[2]
  IN SubSeq(entities, 1, i - 1) \o SubSeq(entities, i + 1, Len(entities))
       \o <<[entity_id |-> <<"media_player", new_id>>,
             unique_id |-> format_unique_id(token, e.unique_id),
             mine |-> e.mine]>>

\* async_migrate_entry, lines 63-131.
async_migrate_entry(loc) ==
  /\ ps4.result = "none"
  /\ LET version == region_version(ps4.version, loc)
         i == first_mine(ps4.entities)
         region == IF version # ps4.version THEN "country" ELSE ps4.region
     IN IF version = 2 /\ i # 0
        THEN ps4' = [ps4 EXCEPT !.version = 3,
                                !.region = region,
                                !.entities = recreate(ps4.entities, i, ps4.token),
                                !.result = "True"]
        ELSE ps4' = [ps4 EXCEPT !.version = version,
                                !.region = region,
                                !.notified = TRUE,
                                !.result = "False"]
  /\ UNCHANGED not_ps4

NextMigrate == \E loc \in Locations : async_migrate_entry(loc)

SpecMigrate == InitMigrate /\ [][NextMigrate]_vars

\* ------------------------------------------------- claims: debounce
\* C1. Debounce: in a burst of matching notifications, each less than
\* TIMER_INTERVAL seconds after the one before and none arriving with a
\* refresh in flight, every timer but the last is superseded and never
\* refreshes; the last timer refreshes once, exactly TIMER_INTERVAL seconds
\* after its notification, once the burst is followed by silence.
C1_DebounceOneRefresh ==
  \A i \in 1..Len(timers) :
    LET t == timers[i] IN
    /\ t.issued # None => t.issued = t.start + Delay
    /\ \A j \in (i + 1)..Len(timers) :
         timers[j].start < t.start + Delay => t.issued = None
    /\ (i = Len(timers) /\ now > t.start + Delay) => t.issued # None

\* A burst of three notifications, then silence, and one refresh.
C1_Witness ==
  /\ Len(timers) = 3
  /\ timers[1].start < timers[2].start
  /\ timers[2].start < timers[3].start
  /\ timers[3].start < timers[1].start + Delay
  /\ timers[1].issued = None
  /\ timers[2].issued = None
  /\ timers[3].issued = timers[3].start + Delay
  /\ now > timers[3].start + Delay

\* C2. A matching notification that arrives while the in-flight flag is set
\* is consumed as the refresh result: afterwards the flag is clear, the cache
\* holds the device value, the adapter is IDLE (no timer pending), and the
\* notification has started no timer and issued no refresh.
C2_ConsumedLeavesIdle ==
  last.op = "consume" =>
    /\ ~refreshing
    /\ <<brightness, state>> = brightness_state(value_data)
    /\ ~TimerPending

\* C3. Once a refresh has been issued, no further refresh is issued and no
\* debounce timer is pending until a matching notification has consumed the
\* in-flight flag.
C3_NoConcurrentRefresh ==
  /\ inflight <= 1
  /\ inflight = 1 => ~TimerPending

\* --------------------------------------------- claims: writes and codec

\* round(num / den) for num >= 0, den > 0.
Round(num, den) == (2 * num + den) \div (2 * den)

Abs(x) == IF x < 0 THEN 0 - x ELSE x

\* C4. A failed transport write never changes cached state: when set_dimmer
\* (or the colour write) of a turn_on or turn_off reports failure, cached
\* brightness, on/off state, rgb and colour temperature are what they were
\* before the call.
C4_FailedWriteKeepsCache ==
  (/\ last.op \in {"turn_on", "turn_off"}
   /\ ~last.dim_ok \/ (last.rgbw # <<>> /\ ~last.rgbw_ok))
  => cache = last.pre

\* C5 (as amended). Decode on a device with both white channels: warm_white
\* > 0 gives temperature WARM (even if cold_white > 0 too), otherwise
\* cold_white > 0 gives COLD, otherwise MID; rgb is the RGB equivalent of
\* WARM or COLD in the first two cases and the parsed RGB bytes in the
\* third, provided the device has one of RED, GREEN, BLUE; without any of
\* them rgb is None.
C5_BothWhiteDecode ==
  (last.op = "construct" /\ Both(value_color_channels)) =>
    LET w == parse_warm(value_color_channels, value_color)
        c == parse_cold(value_color_channels, value_color)
        p == parse_rgb(value_color)
    IN /\ ct = IF w > 0 THEN TEMP_WARM_HASS
               ELSE IF c > 0 THEN TEMP_COLD_HASS ELSE TEMP_MID_HASS
       /\ rgb = IF ~AnyRGB(value_color_channels) THEN NoRGB
                ELSE IF w > 0 THEN ct_to_rgb(TEMP_WARM_HASS)
                ELSE IF c > 0 THEN ct_to_rgb(TEMP_COLD_HASS)
                ELSE RGB(p[1], p[2], p[3])

\* Both white bytes above zero on a device that also has RGB: WARM wins.
C5_Witness ==
  /\ last.op = "construct"
  /\ Both(value_color_channels)
  /\ AnyRGB(value_color_channels)
  /\ parse_warm(value_color_channels, value_color) > 0
  /\ parse_cold(value_color_channels, value_color) > 0
  /\ ct = TEMP_WARM_HASS
  /\ rgb = ct_to_rgb(TEMP_WARM_HASS)

\* C5 as stated: the rgb of the precedence table whatever the RGB bits.
C5_AsStated ==
  (last.op = "construct" /\ Both(value_color_channels)) =>
    LET w == parse_warm(value_color_channels, value_color)
        c == parse_cold(value_color_channels, value_color)
        p == parse_rgb(value_color)
    IN /\ ct = IF w > 0 THEN TEMP_WARM_HASS
               ELSE IF c > 0 THEN TEMP_COLD_HASS ELSE TEMP_MID_HASS
       /\ rgb = IF w > 0 THEN ct_to_rgb(TEMP_WARM_HASS)
                ELSE IF c > 0 THEN ct_to_rgb(TEMP_COLD_HASS)
                ELSE RGB(p[1], p[2], p[3])

TempOnBoth ==
  /\ last.op = "turn_on"
  /\ last.kw.color_temp # None
  /\ Both(color_channels)

\* C6 (as amended). Encode of a colour temperature on a device with both
\* white channels writes #000000FF00 (warm saturated) when the target is
\* above MID and #00000000FF (cold saturated) when it is MID or below, and
\* nothing else.
C6_BothWhiteEncode ==
  TempOnBoth =>
    last.rgbw = IF last.kw.color_temp > TEMP_MID_HASS
                THEN Black \o <<"F", "F", "0", "0">>
                ELSE Black \o <<"0", "0", "F", "F">>

\* A target of exactly MID written as cold saturated.
C6_Witness ==
  /\ TempOnBoth
  /\ last.kw.color_temp = TEMP_MID_HASS
  /\ last.rgbw = Black \o <<"0", "0", "F", "F">>

\* C6 as stated: FF00 for a target <= MID, 00FF for a target > MID.
C6_AsStated ==
  TempOnBoth =>
    last.rgbw = IF last.kw.color_temp <= TEMP_MID_HASS
                THEN Black \o <<"F", "F", "0", "0">>
                ELSE Black \o <<"0", "0", "F", "F">>

\* C7. Encode of an explicit RGB value writes #RRGGBB followed by one 00
\* byte per white channel of the device: none, one or two.
C7_RgbEncodePerChannel ==
  (/\ last.op = "turn_on"
   /\ last.kw.color_temp = None
   /\ last.kw.rgb_color # NoRGB)
  => /\ Len(last.rgbw) = 7 + 2 * WhiteCount(color_channels)
     /\ last.rgbw[1] = "#"
     /\ parse_rgb(last.rgbw) = last.kw.rgb_color.v
     /\ \A i \in 8..Len(last.rgbw) : last.rgbw[i] = "0"

\* C8. Encode of a colour temperature on a one-white device writes #000000
\* and one byte as two hex digits: round((t-MIN)/(MAX-MIN)*255) on a
\* warm-only device, round(255-(t-MIN)/(MAX-MIN)*255) on a cold-only one.
C8_SingleWhiteEncode ==
  (/\ last.op = "turn_on"
   /\ last.kw.color_temp # None
   /\ WarmOnly(color_channels) \/ ColdOnly(color_channels))
  => LET t == last.kw.color_temp
         want == IF WarmOnly(color_channels)
                 THEN Round(t - BYTE_MAX * HASS_COLOR_MIN, CtSpan)
                 ELSE Round(BYTE_MAX * HASS_COLOR_MAX - t, CtSpan)
     IN /\ Len(last.rgbw) = 9
        /\ SubSeq(last.rgbw, 1, 7) = Black
        /\ ParseHex(Slice(last.rgbw, 7, 9)) = want

\* C9. Round trip on a one-white device: the byte decoded from the payload
\* that turn_on writes for the decoded temperature is within one unit of
\* the byte the temperature was decoded from.
C9_RoundTripWithinOne ==
  (/\ last.op = "turn_on"
   /\ last.kw.color_temp # None
   /\ last.kw.color_temp = last.pre[4]
   /\ WarmOnly(color_channels) \/ ColdOnly(color_channels))
  => LET white(data) == IF WarmOnly(color_channels)
                        THEN parse_warm(color_channels, data)
                        ELSE parse_cold(color_channels, data)
     IN /\ white(last.rgbw) # None
        /\ Abs(white(last.rgbw) - white(value_color)) <= 1

\* C10. Decode on a one-white device is linear in the channel byte: warm
\* only gives MIN+(MAX-MIN)*w/255, cold only MIN+(MAX-MIN)*(1-c/255); the
\* temperature lies in [MIN, MAX], never falls as w grows and never rises
\* as c grows.
C10_SingleWhiteDecodeLinear ==
  (/\ last.op = "construct"
   /\ WarmOnly(color_channels) \/ ColdOnly(color_channels))
  => LET w == parse_warm(value_color_channels, value_color)
         c == parse_cold(value_color_channels, value_color)
     IN /\ ct >= BYTE_MAX * HASS_COLOR_MIN
        /\ ct <= BYTE_MAX * HASS_COLOR_MAX
        /\ WarmOnly(color_channels) =>
             /\ ct = BYTE_MAX * HASS_COLOR_MIN + CtSpan * w
             /\ \A w2 \in 0..BYTE_MAX :
                  /\ w2 >= w => decode_ct(color_channels, w2, 0, None) >= ct
                  /\ w2 <= w => decode_ct(color_channels, w2, 0, None) <= ct
        /\ ColdOnly(color_channels) =>
             /\ ct = BYTE_MAX * HASS_COLOR_MIN + CtSpan * (BYTE_MAX - c)
             /\ \A c2 \in 0..BYTE_MAX :
                  /\ c2 >= c => decode_ct(color_channels, 0, c2, None) <= ct
                  /\ c2 <= c => decode_ct(color_channels, 0, c2, None) >= ct

\* A cold-only device at full cold white reports MIN.
C10_Witness ==
  /\ last.op = "construct"
  /\ ColdOnly(color_channels)
  /\ parse_cold(value_color_channels, value_color) = BYTE_MAX
  /\ ct = BYTE_MAX * HASS_COLOR_MIN

\* ------------------------------------------------ claims: decode results
\* C11. On a device that declares none of red, green and blue, a decode
\* that returns leaves rgb None, whatever bytes were parsed and whichever
\* white-channel branch ran.
C11_NoRgbChannelsNone ==
  (/\ last.op \in {"construct", "consume"}
   /\ ~last.error
   /\ ~AnyRGB(color_channels))
  => rgb = NoRGB

\* A two-white device without RGB reporting warm white: the white branch
\* assigned the colour of the temperature and the override cleared it.
C11_Witness ==
  /\ last.op = "construct"
  /\ color_channels = COLOR_CHANNEL_WARM_WHITE + COLOR_CHANNEL_COLD_WHITE
  /\ ct = TEMP_WARM_HASS
  /\ rgb = NoRGB

\* C12. On a device that declares neither white channel the colour
\* temperature is None after any sequence of decodes and writes, and a
\* decode that returns gives the colour the device reported when the device
\* has an RGB channel.
C12_NoWhiteNoCt ==
  (constructed /\ WhiteCount(color_channels) = 0)
  => /\ ct = None
     /\ (last.op \in {"construct", "consume"} /\ ~last.error
         /\ AnyRGB(color_channels))
        => \E c \in ServiceColors :
             /\ value_color = DevicePayload(c, <<>>)
             /\ rgb = RGB(c[1], c[2], c[3])

\* An RGB-only device decodes a refresh result over a colour a write had
\* cached.
C12_Witness ==
  /\ last.op = "consume"
  /\ ~last.error
  /\ color_channels = RGBBits
  /\ last.pre[3] = RGB(BYTE_MAX, 0, 0)
  /\ rgb = RGB(0, 128, BYTE_MAX)
  /\ ct = None

\* C13. A decode that fails on a malformed payload leaves the cached rgb
\* and ct as they were before it.
C13_FailedDecodeKeepsReading ==
  (last.op \in {"construct", "consume"} /\ last.error)
  => /\ rgb = last.pre[3]
     /\ ct = last.pre[4]

\* ------------------------------------------------ claims: encode errors
\* C14. A turn_on given neither a colour temperature nor an RGB colour, or
\* made on a device that declares none of the RGB and white channels, sends
\* no colour payload to the device.
C14_NoTargetNoWrite ==
  (/\ last.op = "turn_on"
   /\ \/ last.kw.color_temp = None /\ last.kw.rgb_color = NoRGB
      \/ WhiteCount(color_channels) = 0 /\ ~AnyRGB(color_channels))
  => last.rgbw = <<>>

C16_FlagSetWhenRefreshIssued ==
  last.op = "refresh" => refreshing

\* C17. A notification for another value id changes nothing in any adapter
\* state: not the cached brightness, on/off state, rgb or ct, not the flag,
\* not the timers; no refresh is issued and the host is not called.
C17_ForeignIgnored ==
  [][last'.op = "foreign" =>
       /\ UNCHANGED <<cache, color_channels, refreshing, timers, hpc, inflight>>
       /\ ~last'.notified]_vars

\* A foreign notification arrived while a refresh was in flight and a
\* second timer was pending.
C17_Witness ==
  /\ last.op = "foreign"
  /\ refreshing
  /\ TimerPending
  /\ inflight > 0

\* C18. An operation that changes the cached brightness, on/off state, rgb
\* or ct calls the host's state-changed callback before it returns.
C18_ChangeNotifiesHost ==
  (last.op \in {"consume", "turn_on", "turn_off"} /\ cache # last.pre)
  => last.notified

\* ---------------------------------------------------- claims: brightness
\* C20. For a raw level r in 1..99 the exposed brightness is r*255/99, within
\* 0..255 and never falling as r grows, and the light is on; for r = 0 the
\* light is off and the exposed brightness is 255.
C20_LevelToBrightness ==
  last.op = "construct" =>
    /\ state = STATE_OFF <=> value_data = 0
    /\ state = STATE_ON <=> value_data > 0
    /\ value_data = 0 => brightness = DIMMER_MAX * BYTE_MAX
    /\ value_data > 0 =>
         /\ brightness = BYTE_MAX * value_data
         /\ brightness > 0 /\ brightness <= DIMMER_MAX * BYTE_MAX
         /\ \A r2 \in 1..DIMMER_MAX :
              /\ r2 >= value_data => brightness_state(r2)[1] >= brightness
              /\ r2 <= value_data => brightness_state(r2)[1] <= brightness

\* A device at raw level 0 is off with brightness 255.
C20_Witness ==
  /\ last.op = "construct"
  /\ value_data = 0
  /\ state = STATE_OFF
  /\ brightness = DIMMER_MAX * BYTE_MAX

\* C20 as stated: for every r in 0..99 the brightness is r*255/99, never
\* falling as r grows, and the light is off exactly when r = 0.
C20_AsStated ==
  last.op = "construct" =>
    /\ brightness = BYTE_MAX * value_data
    /\ \A r2 \in RawLevels :
         r2 >= value_data => brightness_state(r2)[1] >= brightness
    /\ state = STATE_OFF <=> value_data = 0

\* --------------------------------------------------- claims: convergence
\* IDLE with the cache up to date: the handler has returned, no timer is
\* alive, the flag is clear, no refresh is unanswered, and the cached
\* brightness and on/off state are those of the device's current level.
Converged ==
  /\ hpc = "idle"
  /\ ~refreshing
  /\ \A i \in 1..Len(timers) : ~isAlive(timers[i])
  /\ Outstanding = 0
  /\ <<brightness, state>> = brightness_state(value_data)

\* C19. Once a matching notification has arrived and the device then goes
\* quiet, a refresh is issued, its result is consumed, and the adapter comes
\* to rest idle with no timer pending, the flag clear and the cached
\* brightness and state those of the device; the flag does not stay set.
C19_Convergence ==
  (last.op = "value_changed" \/ refreshing \/ TimerPending) ~> Converged

\* Every external change has come, a later notification found the flag
\* cleared and started one more timer, each refresh was answered, and the
\* adapter is at rest.
C19_Witness ==
  /\ Converged
  /\ env.external = 0
  /\ Len(timers) > MaxExternal
  /\ env.delivered >= 2
  /\ last.op = "consume"

\* ------------------------------------------- claims: cache and writes
\* C22. A matching notification that starts or restarts the debounce timer,
\* like one for another value, leaves the cached brightness, on/off state,
\* rgb and ct as they were: of the steps of _value_changed only the one that
\* consumes a refresh result changes the cache.
C22_OnlyConsumeUpdates ==
  [][last'.op \in {"value_changed", "restart", "foreign"} => UNCHANGED cache]_vars

\* A timer was started for a device whose level and colour both differ
\* from what is cached.
C22_Witness ==
  /\ last.op = "restart"
  /\ brightness # brightness_state(value_data)[1]
  /\ value_color \notin Malformed
  /\ <<rgb, ct>> # <<decode(value_color_channels, value_color, rgb, ct).rgb,
                     decode(value_color_channels, value_color, rgb, ct).ct>>

\* C23. On a two-white device the colour temperature turn_on caches for a
\* target t is the one a decode reads back from the payload the same call
\* wrote, for every t.
C23_WrittenPayloadDecodesToCache ==
  (/\ last.op = "turn_on"
   /\ Both(color_channels)
   /\ last.kw.color_temp # None)
  => /\ last.rgbw \in {Black \o <<"F", "F", "0", "0">>,
                       Black \o <<"0", "0", "F", "F">>}
     /\ ~decode(color_channels, last.rgbw, rgb, None).error
     /\ decode(color_channels, last.rgbw, rgb, None).ct = ct

\* The warmest target on a two-white device: FF00 written, WARM cached.
C23_Witness ==
  /\ last.op = "turn_on"
  /\ Both(color_channels)
  /\ last.kw.color_temp = BYTE_MAX * HASS_COLOR_MAX
  /\ last.rgbw = Black \o <<"F", "F", "0", "0">>
  /\ ct = TEMP_WARM_HASS

\* C24. On a device that declares none of red, green and blue the exposed
\* rgb_color is None in every state.
C24_NoRgbDeviceNeverRgb ==
  (constructed /\ ~AnyRGB(color_channels)) => rgb_color = NoRGB

\* C25. When turn_on leaves the light on, the level it sent was in 1..99.
C25_OnMeansLevelSent ==
  (last.op = "turn_on" /\ last.dim_ok /\ state = STATE_ON)
  => last.level \in 1..DIMMER_MAX

\* -------------------------------------------------- claims: deCONZ cover
\* C21. A cover entity is closed exactly when its light's 'on' flag is true
\* and open when it is false, after any sequence of state-changed events;
\* an event for one light changes no other cover's state; a light of an
\* unsupported type has no cover entity; after a reset no cover state is
\* left.
C21_CoverFollowsLight ==
  /\ deconz.phase = "setup" =>
       /\ \A c \in DOMAIN deconz.states :
            /\ deconz.states[c] = "closed" <=> deconz.lights[c].on = TRUE
            /\ deconz.states[c] = "open" <=> deconz.lights[c].on = FALSE
       /\ "3" \notin DOMAIN deconz.states
       /\ DOMAIN deconz.states = {"1", "2", "4", "5"}
       /\ deconz.event \in DOMAIN COVERS =>
            \A c \in DOMAIN deconz.states \ {deconz.event} :
              deconz.states[c] = deconz.pre[c]
  /\ deconz.phase = "reset" => DOMAIN deconz.states = {}

\* The event of line 87: light "1" turned on, its cover went from open to
\* closed, and the cover of light "4" stayed open.
C21_Witness ==
  /\ deconz.phase = "setup"
  /\ deconz.event = "1"
  /\ deconz.pre["1"] = "open"
  /\ deconz.states["1"] = "closed"
  /\ deconz.states["4"] = "open"
  /\ deconz.states["2"] = "closed"

\* ------------------------------------------------ claims: GraphiteFeeder
\* The events put on the queue before the sentinel, in order.
BeforeQuit(log) ==
  IF \E i \in 1..Len(log) : log[i] = QUIT
  THEN SubSeq(log, 1, (CHOOSE i \in 1..Len(log) : log[i] = QUIT) - 1)
  ELSE log

\* The events of a sequence that carry a new state.
WithState(events) == SelectSeq(events, LAMBDA e : e.kind = "state")

\* C26. When the worker thread has ended, every event with a new state
\* that was queued before the sentinel has been reported, once and in queue
\* order, and no event queued after the sentinel has been.
C26_AllHandledBeforeExit ==
  graphite.thread \in {"returned", "raised"}
  => graphite.reported = WithState(BeforeQuit(graphite.log))

\* ------------------------------------------------------ claims: Locative
\* C27. An exit from a zone other than the one the device is in dispatches
\* nothing, so after enter a, enter b, exit a the device is in b; an exit
\* from the zone the device is in, or for a device without a state,
\* dispatches one update to not_home.
C27_ExitOtherZoneIgnored ==
  LET n == Len(locative.calls)
  IN /\ (n > 0 /\ locative.calls[n][1] = "exit") =>
          IF locative.seen \in {NoState, locative.calls[n][2]}
          THEN locative.sent = <<STATE_NOT_HOME>>
          ELSE locative.sent = << >>
     /\ (/\ locative.calls = <<<<"enter", "a">>, <<"enter", "b">>, <<"exit", "a">>>>
         /\ locative.pending = << >>)
        => locative.state = "b"

\* C28. After a command has been answered, and until the next device update,
\* is_on is the 'ison' value of the control result the command got; after a
\* device update the control result is cleared and is_on is the block's own
\* output until the next command is answered.  The state the host was given
\* is is_on in both cases.
C28_ResultOverridesUntilUpdate ==
  LET on == is_on(shelly.control_result, shelly.output)
  IN /\ shelly.event = "command" =>
          /\ on = shelly.result[1].ison
          /\ shelly.state = on
     /\ shelly.event = "update" =>
          /\ shelly.control_result = NoResult
          /\ on = shelly.output
          /\ shelly.state = on

\* Every command has been answered, the last one after the last device
\* update and with the opposite of the block's output.
C28_Witness ==
  /\ shelly.event = "command"
  /\ shelly.issued = MaxCommands
  /\ shelly.awaiting = << >>
  /\ shelly.result[1].ison # shelly.output

\* C29. Once _stop_discovery has run, no heartbeat is armed and the discovery
\* thread is not running.
C29_StoppedStaysStopped ==
  sonos.stop_heard =>
    /\ \A i \in 1..Len(sonos.timers) : sonos.timers[i] # "armed"
    /\ sonos.thread # "running"

\* C30. When the migration returned True, the entry is at version 3 and
\* every registry entity of the entry is there again under its old entity_id
\* with the unique id '<old unique id>_<last 4 characters of the token>';
\* when it returned False, the version is below 3 and the notification exists.
C30_MigratedAllOrNotified ==
  /\ ps4.result = "True" =>
       /\ ps4.version = 3
       /\ \A i \in 1..Len(ps4.before) :
            ps4.before[i].mine =>
              \E j \in 1..Len(ps4.entities) :
                /\ ps4.entities[j].entity_id = ps4.before[i].entity_id
                /\ ps4.entities[j].unique_id
                     = ps4.before[i].unique_id \o <<"_">> \o Last4(ps4.token)
  /\ ps4.result = "False" =>
       /\ ps4.version < 3
       /\ ps4.notified

====
